---- MODULE Spec2Model ----
(***************************************************************************)
(* State-machine model of src/sketch.js: the heightfield water simulation  *)
(* (updateHeightfield), the impulse injector (addHeightfieldImpulse), the  *)
(* screen-to-sphere mapping (handleInteraction) and the p5.js gesture      *)
(* callbacks (touchStarted .. mouseReleased, draw, windowResized).         *)
(*                                                                         *)
(* Number formats.                                                         *)
(*  - Heights are JavaScript numbers, IEEE-754 doubles.  Here a height is  *)
(*    the same double, [neg, exp, man] for (-1)^neg * man * 2^exp with a   *)
(*    53-bit mantissa, and +, -, * and / round to the nearest double, ties *)
(*    to even, as the source's operators do.  Exponents stay far from the  *)
(*    overflow and subnormal ranges, which are not modelled.               *)
(*  - damping is held in thousandths (0.985 is 985); a step multiplies by  *)
(*    the double nearest to it, which is what the literal 0.985 denotes.   *)
(*  - Angles are held in units of pi/12: theta = a*pi/12, phi = b*pi/12,   *)
(*    so theta / TWO_PI = a/24 and phi / PI = b/12.                        *)
(*  - sphereRadius is held in tenths of a pixel, three times the smaller   *)
(*    window side; the distance tests of handleInteraction and of          *)
(*    mousePressed use the double min(w, h) * 0.3 and the doubles of their *)
(*    arithmetic.                                                          *)
(*  - rotationX, rotationY are held in 1e-4 rad (0.01 rad = 100).          *)
(*  - time is held in milliseconds (0.016 = 16).                           *)
(***************************************************************************)
EXTENDS Integers, Sequences, FiniteSets

(* ------------------------------ bounds --------------------------------- *)

\* Grid of the main specification (the source uses 256 x 128).
Cols == 6

\* Rows of the main specification.
Rows == 5

\* Columns of the wide grid, on which a drag spans more than 21 columns.
WideCols == 44

\* Number of input callbacks (touch, mouse, resize) of one behaviour.
MaxCalls == 3

\* Number of draw() calls (frames and redraws) of one behaviour.
MaxFrames == 3

\* Input callbacks of one behaviour on the wide grid.
WideCalls == 3

(* ------------------------- program constants --------------------------- *)

\* let damping = 0.985, in thousandths.
CodeDamping == 985

\* let impulseStrength = 400.
CodeImpulseStrength == 400

\* PI / 2 in 1e-4 rad, the bound of constrain(rotationX, -PI/2, PI/2).
HalfPi == 15708

(* ------------------------------ inputs --------------------------------- *)

\* Window sizes <<windowWidth, windowHeight>> the browser reports.
WindowSizes == {<<40, 40>>, <<80, 40>>}

\* Pointer positions <<x, y>> in canvas pixels (mouseX/mouseY, touches[0]);
\* <<60, 20>> and <<200, 20>> lie to the right of a 40-pixel-wide canvas.
Pointers == {<<20, 20>>, <<40, 20>>, <<60, 20>>, <<0, 20>>,
             <<40, 40>>, <<200, 20>>, <<40, 0>>}

\* The touches array of a touch event: empty, or its first touch.
TouchLists == {<< >>} \cup {<<p>> : p \in Pointers}

(* ------------------------------ state ---------------------------------- *)

VARIABLES
  heightfieldCols, heightfieldRows, damping, impulseStrength,
  sphereRadius, width, height,
  rotationX, rotationY, isDragging, lastMouseX, lastMouseY,
  isDrawing, lastDrawTheta, lastDrawPhi, time, showInstructions,
  heightfieldCurrent, heightfieldPrevious,
  \* the array objects heightfieldCurrent and heightfieldPrevious refer to
  currentRef, previousRef,
  \* history (not program state); cursorFresh: the stored last-drawn angle
  \* was recorded by an injection made since the gesture began.
  calls, maxCalls, notifications, drawingBegins, pending, log, cursorFresh

config == <<heightfieldCols, heightfieldRows, damping, impulseStrength, maxCalls>>
canvas == <<sphereRadius, width, height>>
mouse == <<rotationX, rotationY, isDragging, lastMouseX, lastMouseY>>
cursor == <<lastDrawTheta, lastDrawPhi>>
grid == <<heightfieldCurrent, heightfieldPrevious>>
refs == <<currentRef, previousRef>>
history == <<calls, notifications, drawingBegins, pending, log, cursorFresh>>

vars == <<config, canvas, mouse, cursor, grid, refs, history,
          isDrawing, time, showInstructions>>

(* --------------------------- p5.js helpers ----------------------------- *)

Min(a, b) == IF a < b THEN a ELSE b

Max(a, b) == IF a > b THEN a ELSE b

Abs(a) == IF a < 0 THEN -a ELSE a

\* constrain(n, low, high) of p5.js: max(min(n, high), low).
constrain(n, low, high) == Max(Min(n, high), low)

(* ------------------------------ doubles -------------------------------- *)

\* A natural number of any size is a sequence of limbs of LimbBits bits,
\* least significant first, without leading zero limbs.
LimbBits == 14

Limb == 2 ^ LimbBits

\* The bits of a double's mantissa.
MantissaBits == 53

\* The number of bits of the natural n below Limb.
Bits(n) ==
  CHOOSE b \in 0..LimbBits : 2 ^ b > n /\ (b = 0 \/ 2 ^ (b - 1) <= n)

\* The index of the highest limb of x that is not 0, or 0.
Top(x) ==
  IF \A k \in 1..Len(x) : x[k] = 0 THEN 0
  ELSE CHOOSE k \in 1..Len(x) :
         x[k] # 0 /\ \A m \in (k + 1)..Len(x) : x[m] = 0

\* x without its leading zero limbs.
Trim(x) == SubSeq(x, 1, Top(x))

\* The number of bits of x.
BitLength(x) ==
  IF x = << >> THEN 0 ELSE LimbBits * (Len(x) - 1) + Bits(x[Len(x)])

\* Limb k of x, 0 beyond its ends.
LimbAt(x, k) == IF k >= 1 /\ k <= Len(x) THEN x[k] ELSE 0

\* The number with the digits d[1] .. d[n], which may exceed a limb or be
\* negative, for a number that is not negative: the carries are propagated
\* upwards from the lowest digit.
Carried(d, n) ==
  LET c[k \in 0..n] ==
        IF k = 0 THEN 0 ELSE (d[k] + c[k - 1]) \div Limb
  IN  Trim(SubSeq([k \in 1..n |-> (d[k] + c[k - 1]) % Limb], 1, n))

\* x + sign * y in n limbs.
AddDigits(x, y, sign, n) ==
  Carried(SubSeq([k \in 1..n |-> LimbAt(x, k) + sign * LimbAt(y, k)], 1, n),
          n)

\* x + sign * y, for a result that is not negative.
AddLimbs(x, y, sign) == AddDigits(x, y, sign, Max(Len(x), Len(y)) + 1)

\* x * k, for k up to Limb.
TimesLimb(x, k) ==
  Carried(SubSeq([i \in 1..(Len(x) + 1) |-> LimbAt(x, i) * k],
                 1, Len(x) + 1),
          Len(x) + 1)

\* x * y, for x and y of four limbs at most (mantissas): digit i is the sum
\* of the products of the limbs a of x and i + 1 - a of y.
Times(x, y) ==
  Carried(SubSeq([i \in 1..(Len(x) + Len(y)) |->
                    LimbAt(x, 1) * LimbAt(y, i)
                    + LimbAt(x, 2) * LimbAt(y, i - 1)
                    + LimbAt(x, 3) * LimbAt(y, i - 2)
                    + LimbAt(x, 4) * LimbAt(y, i - 3)],
                 1, Len(x) + Len(y)),
          Len(x) + Len(y))

\* <<quotient, remainder>> of x by d, for d below Limb: the long division
\* from the highest limb, r[k] the remainder carried into limb k - 1.
DivLimb(x, d) ==
  LET r[k \in 1..(Len(x) + 1)] ==
        IF k = Len(x) + 1 THEN 0 ELSE (r[k + 1] * Limb + x[k]) % d
  IN  << Trim(SubSeq([k \in 1..Len(x) |->
                        (r[k + 1] * Limb + x[k]) \div d],
                     1, Len(x))),
         r[1] >>

\* x * 2^(LimbBits * limbs + bits), for bits below LimbBits.
ShiftedLeft(x, limbs, bits) ==
  Trim(SubSeq([k \in 1..(Len(x) + limbs + 1) |->
                 ((LimbAt(x, k - limbs) * 2 ^ bits) % Limb)
                 + (LimbAt(x, k - limbs - 1) \div 2 ^ (LimbBits - bits))],
              1, Len(x) + limbs + 1))

\* x * 2^n.
ShiftLeft(x, n) ==
  IF x = << >> \/ n = 0 THEN x
  ELSE ShiftedLeft(x, n \div LimbBits, n % LimbBits)

\* The floor of x / 2^(LimbBits * limbs + bits), for bits below LimbBits.
ShiftedRight(x, limbs, bits) ==
  Trim(SubSeq([k \in 1..Len(x) |->
                 (LimbAt(x, k + limbs) \div 2 ^ bits)
                 + ((LimbAt(x, k + limbs + 1) % (2 ^ bits))
                      * 2 ^ (LimbBits - bits))],
              1, Len(x)))

\* The floor of x / 2^n.
ShiftRight(x, n) == ShiftedRight(x, n \div LimbBits, n % LimbBits)

\* x < y.
Less(x, y) ==
  \/ Len(x) < Len(y)
  \/ /\ Len(x) = Len(y)
     /\ \E k \in 1..Len(x) :
          x[k] < y[k] /\ \A m \in (k + 1)..Len(x) : x[m] = y[m]

\* The double 0.
Zero == [neg |-> FALSE, exp |-> 0, man |-> << >>]

\* The double (-1)^neg * r * 2^e of a rounded mantissa r, which the
\* rounding may have carried into one bit more than a mantissa has.
Normal(neg, r, e) ==
  IF BitLength(r) > MantissaBits
    THEN [neg |-> neg, exp |-> e + 1, man |-> ShiftRight(r, 1)]
    ELSE [neg |-> neg, exp |-> e, man |-> r]

\* Round to nearest, ties to even: f are the bits kept, half is the highest
\* bit dropped and sticky says that another dropped bit is set.
Nearest(neg, f, half, sticky, e) ==
  Normal(neg,
         IF half /\ (sticky \/ f[1] % 2 = 1)
           THEN AddLimbs(f, <<1>>, 1) ELSE f,
         e)

\* x with its q lowest bits rounded away; the highest of them is bit b of
\* limb k + 1.
Cut(neg, x, exp, q, k, b) ==
  Nearest(neg, ShiftRight(x, q),
          (x[k + 1] \div 2 ^ b) % 2 = 1,
          x[k + 1] % (2 ^ b) # 0 \/ \E m \in 1..k : x[m] # 0,
          exp + q)

\* x brought to the bits of a mantissa, x having q bits more than that.
Rounded(neg, x, exp, q) ==
  IF q <= 0
    THEN [neg |-> neg, exp |-> exp + q, man |-> ShiftLeft(x, -q)]
    ELSE Cut(neg, x, exp, q, (q - 1) \div LimbBits, (q - 1) % LimbBits)

\* The double nearest to (-1)^neg * x * 2^exp, ties to the even mantissa:
\* the rounding of every arithmetic operator of the source.
Double(neg, x, exp) ==
  IF x = << >> THEN Zero
  ELSE Rounded(neg, x, exp, BitLength(x) - MantissaBits)

\* The double of the integer n.
Height(n) ==
  Double(n < 0,
         Trim(<<Abs(n) % Limb, (Abs(n) \div Limb) % Limb,
                Abs(n) \div (Limb * Limb)>>),
         0)

\* The double of a quotient and remainder qr scaled by 2^exp: the quotient
\* with one more bit for a remainder.
Inexact(neg, qr, exp) ==
  Double(neg,
         AddLimbs(TimesLimb(qr[1], 2), IF qr[2] # 0 THEN <<1>> ELSE << >>,
                  1),
         exp - 1)

\* The double nearest to h / d for a double h and d positive and below
\* Limb: the quotient to 70 bits or more.
Quotient(h, d) ==
  Inexact(h.neg, DivLimb(ShiftLeft(h.man, 6 * LimbBits), d),
          h.exp - 6 * LimbBits)

\* The double nearest to n / d for an integer n and d positive and below
\* Limb: the literals 0.7, 0.6 and 0.985 of the source, and x / width.
Ratio(n, d) == Quotient(Height(n), d)

\* The double of x + sign * y at exponent exp, for x not below y.
Combined(neg, x, y, sign, exp) == Double(neg, AddLimbs(x, y, sign), exp)

\* The sum of mantissas x and y at one exponent: the smaller magnitude is
\* taken from the greater when the signs differ (swap: y is the greater).
Signed(xneg, x, yneg, y, exp, swap) ==
  Combined(IF swap THEN yneg ELSE xneg,
           IF swap THEN y ELSE x,
           IF swap THEN x ELSE y,
           IF xneg = yneg THEN 1 ELSE -1,
           exp)

\* The mantissa of hi brought to the exponent of lo, at gap bits below.
Shifted(hi, lo, x) ==
  Signed(hi.neg, x, lo.neg, lo.man, lo.exp, hi.neg # lo.neg /\ Less(x, lo.man))

\* hi + lo, for hi of the greater exponent: an operand more than a mantissa
\* below the other does not count.
Aligned(hi, lo) ==
  IF hi.exp - lo.exp > MantissaBits + 2 THEN hi
  ELSE Shifted(hi, lo, ShiftLeft(hi.man, hi.exp - lo.exp))

\* a + b.
Plus(a, b) ==
  IF a.man = << >> THEN b
  ELSE IF b.man = << >> THEN a
  ELSE Aligned(IF a.exp >= b.exp THEN a ELSE b,
               IF a.exp >= b.exp THEN b ELSE a)

\* a - b.
Minus(a, b) ==
  Plus(a, IF b.man = << >> THEN b ELSE [b EXCEPT !.neg = ~b.neg])

\* a * b.
Product(a, b) ==
  IF a.man = << >> \/ b.man = << >> THEN Zero
  ELSE Double(a.neg # b.neg, Times(a.man, b.man), a.exp + b.exp)

\* a / 8.
Eighth(a) == IF a.man = << >> THEN a ELSE [a EXCEPT !.exp = @ - 3]

\* a * 2.
Twice(a) == IF a.man = << >> THEN a ELSE [a EXCEPT !.exp = @ + 1]

\* An exact number man * 2^exp, not rounded to a double.
Exact(man, exp) == [man |-> man, exp |-> exp]

\* a < b for exact numbers or doubles that are not negative.
ExactLess(a, b) ==
  IF a.exp >= b.exp
    THEN Less(ShiftLeft(a.man, a.exp - b.exp), b.man)
    ELSE Less(a.man, ShiftLeft(b.man, b.exp - a.exp))

\* m * m, exactly, for m of four limbs at most.
ExactSquare(m) == Exact(Times(m.man, m.man), 2 * m.exp)

\* The number half-way between the positive double t and the next double
\* above it.
MidAbove(t) == Exact(AddLimbs(TimesLimb(t.man, 2), <<1>>, 1), t.exp - 1)

\* The number half-way between the positive double t and the next double
\* below it, which is half as far away below a power of two.
MidBelow(t) ==
  IF t.man = ShiftLeft(<<1>>, MantissaBits - 1)
    THEN Exact(AddLimbs(TimesLimb(t.man, 4), <<1>>, -1), t.exp - 2)
    ELSE Exact(AddLimbs(TimesLimb(t.man, 2), <<1>>, -1), t.exp - 1)

\* sqrt(s) > t for doubles s >= 0 and t > 0.  sqrt gives the double nearest
\* to the root, so it is above t exactly when the root is above the number
\* half-way to the next double, whose square is no double.
SqrtAbove(s, t) == s.man # << >> /\ ExactLess(ExactSquare(MidAbove(t)), s)

\* sqrt(s) < t for doubles s >= 0 and t > 0.
SqrtBelow(s, t) == s.man = << >> \/ ExactLess(s, ExactSquare(MidBelow(t)))

\* The greater of r and c whose square is not above n, for c of four limbs
\* at most.
RootStep(r, c, n) == IF Less(n, Times(c, c)) THEN r ELSE c

\* r with bit b set if the square stays within n, b being above the bits
\* of r.
RootBit(r, b, n) == RootStep(r, AddLimbs(r, ShiftLeft(<<1>>, b), 1), n)

\* r with the four bits b + 3 .. b settled, from the highest down.
RootDigit(r, b, n) ==
  RootBit(RootBit(RootBit(RootBit(r, b + 3, n), b + 2, n), b + 1, n), b, n)

\* The floor of the square root of n, for n below 2^112: the 14
\* hexadecimal digits of the root are settled from the highest down,
\* root[k] holding k of them, and p is the value of root[k - 1].
RootFloor(n) ==
  LET root[k \in 0..14] ==
        IF k = 0 THEN << >>
        ELSE CHOOSE c \in {RootDigit(p, 4 * (14 - k), n) :
                             p \in {root[k - 1]}} : TRUE
  IN  root[14]

\* The double nearest to the root of n * 2^(2 * half), for the floor r of
\* the root of n, of 55 bits or more.
RootRounded(n, r, half) ==
  Inexact(FALSE, <<r, IF Times(r, r) = n THEN 0 ELSE 1>>, half)

\* The double nearest to the root of man * 2^exp with the mantissa shifted
\* up by k bits, exp - k even.
RootShifted(man, exp, k) ==
  RootRounded(ShiftLeft(man, k), RootFloor(ShiftLeft(man, k)),
              (exp - k) \div 2)

\* Math.sqrt(s) for a double s >= 0: the double nearest to the root.
Sqrt(s) ==
  IF s.man = << >> THEN Zero
  ELSE RootShifted(s.man, s.exp, IF (s.exp - 57) % 2 = 0 THEN 57 ELSE 58)

\* a / 2.
Half(a) == IF a.man = << >> THEN a ELSE [a EXCEPT !.exp = @ - 1]

\* An all-zero cols x rows buffer (setup, and newHeightfield's allocation).
ZeroField(cols, rows) ==
  [i \in 0..(cols - 1) |-> [j \in 0..(rows - 1) |-> Zero]]

(* -------------------------- updateHeightfield --------------------------- *)

\* iPrev = (i - 1 + heightfieldCols) % heightfieldCols.
WrapPrev(i, cols) == (i - 1 + cols) % cols

\* Mutant: the right neighbour stops at the last column instead of wrapping.
WrapNextClamped(i, cols) == Min(i + 1, cols - 1)

\* iNext = (i + 1) % heightfieldCols.
WrapNext(i, cols) == (i + 1) % cols

\* Mutant: the four orthogonal neighbours only.
NeighbourSumOrthogonal(prev, i, j, cols) ==
  LET iPrev == WrapPrev(i, cols)
      iNext == WrapNext(i, cols)
  IN  Plus(Plus(Plus(prev[iPrev][j], prev[iNext][j]), prev[i][j - 1]),
           prev[i][j + 1])

\* The sum of the eight neighbours of cell (i, j) in buffer prev, added
\* from left to right in the order of the source.
NeighbourSum(prev, i, j, cols) ==
  LET iPrev == WrapPrev(i, cols)
      iNext == WrapNext(i, cols)
  IN  Plus(Plus(Plus(Plus(Plus(Plus(Plus(prev[iPrev][j], prev[iNext][j]),
                                    prev[i][j - 1]),
                               prev[i][j + 1]),
                          prev[iPrev][j - 1]),
                     prev[iPrev][j + 1]),
                prev[iNext][j - 1]),
           prev[iNext][j + 1])

\* newHeightfield[i][j] = sum / 8 - heightfieldCurrent[i][j], then
\* newHeightfield[i][j] *= damping, with the double damp.
WaveCell(prev, cur, i, j, cols, damp) ==
  Product(Minus(Eighth(NeighbourSum(prev, i, j, cols)), cur[i][j]), damp)

\* The new buffer for the double d of damping: rows 0 and rows-1 stay at
\* the 0 of the allocation, every other cell gets the damped wave rule.
Stepped(prev, cur, cols, rows, d) ==
  [i \in 0..(cols - 1) |->
     [j \in 0..(rows - 1) |->
        IF j >= 1 /\ j < rows - 1
          THEN WaveCell(prev, cur, i, j, cols, d)
          ELSE Zero]]

\* Mutant: the buffers are rotated before the wave rule is evaluated, so the
\* rule reads the old current buffer and never sees heightfieldPrevious.
updateHeightfieldRotatedFirst(prev, cur, cols, rows, damp) ==
  Stepped(cur, cur, cols, rows, Ratio(damp, 1000))

\* The buffer updateHeightfield computes, damping in thousandths.
updateHeightfield(prev, cur, cols, rows, damp) ==
  Stepped(prev, cur, cols, rows, Ratio(damp, 1000))

\* let newHeightfield = []: an array object that is neither buffer.
NewBuffer(curRef, prevRef) == Max(curRef, prevRef) + 1

\* Mutant: the two assignments in the other order, heightfieldCurrent =
\* newHeightfield first, so that both variables end at the new array.
RotateBuffersCurrentFirst(cur, new) == <<new, new>>

\* heightfieldPrevious = heightfieldCurrent; heightfieldCurrent =
\* newHeightfield, on pairs <<array object, cells>>: the new
\* <<heightfieldPrevious, heightfieldCurrent>>.
RotateBuffers(cur, new) == <<cur, new>>

(* ------------------------ addHeightfieldImpulse ------------------------ *)

\* floor((theta / TWO_PI) * heightfieldCols), then the two wrap-around ifs.
ThetaIndex(theta, cols) ==
  LET raw == (theta * cols) \div 24
  IN  IF raw < 0 THEN raw + cols
      ELSE IF raw >= cols THEN raw - cols
      ELSE raw

\* Mutant: the row is clamped into the whole grid, boundary rows included.
PhiIndexAnyRow(phi, rows) == constrain((phi * rows) \div 12, 0, rows - 1)

\* constrain(floor((phi / PI) * heightfieldRows), 1, heightfieldRows - 2).
PhiIndex(phi, rows) == constrain((phi * rows) \div 12, 1, rows - 2)

\* The interpolations, with indices 0 .. 47, for which the IEEE-754 double
\* (s / steps) * (stop - start) + start is below its exact integer value,
\* as <<stop - start, s, steps, lo, hi>> for the starts lo .. hi: 15/22 * 22
\* = 14.999999999999998 and 14/25 * (-25) + 25 = 10.999999999999998.  Every
\* other interpolation on these indices has the floor of its exact value.
LerpBelow ==
  {<<-47, 27, 47, 47, 47>>, <<-46, 27, 46, 46, 47>>,
   <<-45, 29, 45, 45, 47>>, <<-44, 25, 44, 44, 47>>,
   <<-43, 28, 43, 43, 47>>, <<-42, 23, 42, 42, 47>>,
   <<-42, 27, 42, 42, 47>>, <<-41, 23, 41, 41, 47>>,
   <<-41, 28, 41, 41, 47>>, <<-39, 25, 39, 39, 47>>,
   <<-38, 21, 38, 38, 47>>, <<-35, 29, 35, 35, 47>>,
   <<-29, 15, 29, 29, 31>>, <<-25, 14, 25, 25, 30>>, <<22, 15, 22, 0, 1>>,
   <<22, 30, 44, 0, 1>>, <<23, 13, 23, 0, 3>>, <<23, 26, 46, 0, 3>>,
   <<26, 15, 26, 0, 1>>, <<39, 31, 39, 0, 1>>, <<43, 23, 43, 0, 4>>,
   <<43, 31, 43, 0, 1>>, <<44, 15, 44, 0, 1>>, <<44, 30, 44, 0, 2>>,
   <<45, 13, 45, 0, 2>>, <<45, 26, 45, 0, 2>>, <<46, 13, 46, 0, 1>>,
   <<46, 26, 46, 0, 1>>, <<47, 3, 47, 0, 0>>, <<47, 6, 47, 0, 0>>,
   <<47, 12, 47, 0, 0>>, <<47, 24, 47, 0, 0>>, <<47, 31, 47, 0, 0>>}

\* floor(lerp(start, stop, s / max(steps, 1))) as doubles compute it.
FloorLerp(start, stop, s, steps) ==
  LET exact == start + ((stop - start) * s) \div Max(steps, 1)
      below == \E e \in LerpBelow :
                 /\ e[1] = stop - start
                 /\ e[2] = s
                 /\ e[3] = steps
                 /\ e[4] <= start
                 /\ start <= e[5]
  IN  IF below THEN exact - 1 ELSE exact

\* The wrap-around ifs on an interpolated column.
WrapIndex(ti, cols) ==
  IF ti < 0 THEN ti + cols
  ELSE IF ti >= cols THEN ti - cols
  ELSE ti

\* Mutant: the neighbour column is ti + di, without the wrap-around.
NeighbourWritesUnwrapped(ti, pj, value, cols, rows) ==
  LET cell(di, dj) ==
        <<ti + di, constrain(pj + dj, 1, rows - 2), value>>
  IN  << cell(-1, -1), cell(-1, 0), cell(-1, 1),
         cell(0, -1), cell(0, 1),
         cell(1, -1), cell(1, 0), cell(1, 1) >>

\* The eight writes <<col, row, value>> of a neighbour loop around (ti, pj),
\* in loop order: di outer, dj inner, the (0, 0) iteration skipped.
NeighbourWrites(ti, pj, value, cols, rows) ==
  LET cell(di, dj) ==
        <<(ti + di + cols) % cols, constrain(pj + dj, 1, rows - 2), value>>
  IN  << cell(-1, -1), cell(-1, 0), cell(-1, 1),
         cell(0, -1), cell(0, 1),
         cell(1, -1), cell(1, 0), cell(1, 1) >>

\* impulseStrength * 0.7 and impulseStrength * 0.6 (tenths = 7, 6).
Falloff(strength, tenths) == Product(Height(strength), Ratio(tenths, 10))

\* Single point impulse: the centre, then its neighbours at 0.7.
PointWrites(ti, pj, strength, cols, rows) ==
  << <<ti, pj, Height(strength)>> >>
  \o NeighbourWrites(ti, pj, Falloff(strength, 7), cols, rows)

\* The interpolated cell of step s of a path from (lt, lp) to (ti, pj).
PathCell(lt, lp, ti, pj, s, cols, rows) ==
  LET steps == Max(Abs(ti - lt), Abs(pj - lp))
  IN  << WrapIndex(FloorLerp(lt, ti, s, steps), cols),
         constrain(FloorLerp(lp, pj, s, steps), 1, rows - 2) >>

\* The interpolated cells of a path, s = 0 .. steps.
PathCells(lt, lp, ti, pj, cols, rows) ==
  [k \in 1..(Max(Abs(ti - lt), Abs(pj - lp)) + 1) |->
     PathCell(lt, lp, ti, pj, k - 1, cols, rows)]

\* Write o of path cell c: the centre (o = 0), then the neighbour loop.
PathWrite(c, o, centre, around, cols, rows) ==
  IF o = 0
    THEN <<c[1], c[2], centre>>
    ELSE NeighbourWrites(c[1], c[2], around, cols, rows)[o]

\* The writes along the path cells; write n belongs to path cell
\* (n - 1) \div 9 + 1.
PathWritesAlong(cells, centre, around, cols, rows) ==
  [n \in 1..(9 * Len(cells)) |->
     PathWrite(cells[(n - 1) \div 9 + 1], (n - 1) % 9, centre, around,
               cols, rows)]

\* Path impulse: for each interpolated cell the centre, then its neighbours
\* at 0.6.
PathWrites(lt, lp, ti, pj, strength, cols, rows) ==
  PathWritesAlong(PathCells(lt, lp, ti, pj, cols, rows), Height(strength),
                  Falloff(strength, 6), cols, rows)

\* All writes of one addHeightfieldImpulse call, in program order.
ImpulseWrites(theta, phi, isFirstTouch, lastTheta, lastPhi, strength, cols, rows) ==
  LET thetaIndex == ThetaIndex(theta, cols)
      phiIndex == PhiIndex(phi, rows)
  IN  IF ~isFirstTouch
        THEN PathWrites(ThetaIndex(lastTheta, cols), PhiIndex(lastPhi, rows),
                        thetaIndex, phiIndex, strength, cols, rows)
        ELSE PointWrites(thetaIndex, phiIndex, strength, cols, rows)

\* Mutant: a write adds to the cell (+=) instead of overwriting it.
ApplyWritesAdding(buf, ws) ==
  [i \in DOMAIN buf |->
     [j \in DOMAIN buf[i] |->
        LET hits == {k \in 1..Len(ws) : ws[k][1] = i /\ ws[k][2] = j}
        IN  IF hits = {} THEN buf[i][j]
            ELSE Plus(buf[i][j],
                      ws[CHOOSE k \in hits : \A m \in hits : m <= k][3])]]

\* The buffer after the assignments buf[col][row] = value of ws, executed in
\* order: a cell holds the value of the last write to it, if any.
ApplyWrites(buf, ws) ==
  [i \in DOMAIN buf |->
     [j \in DOMAIN buf[i] |->
        LET hits == {k \in 1..Len(ws) : ws[k][1] = i /\ ws[k][2] = j}
        IN  IF hits = {} THEN buf[i][j]
            ELSE ws[CHOOSE k \in hits : \A m \in hits : m <= k][3]]]

\* heightfieldPrevious after addHeightfieldImpulse(theta, phi, isFirstTouch).
addHeightfieldImpulse(prev, theta, phi, isFirstTouch, lastTheta, lastPhi, strength, cols, rows) ==
  ApplyWrites(prev,
              ImpulseWrites(theta, phi, isFirstTouch, lastTheta, lastPhi,
                            strength, cols, rows))

(* -------------------------- handleInteraction -------------------------- *)

\* The double sphereRadius = min(windowWidth, windowHeight) * 0.3 of a
\* radius held in tenths, which are three times the minimum.
RadiusOf(radius) == Product(Height(radius \div 3), Ratio(3, 10))

\* ndcX = (x / width) * 2 - 1.
NdcX(x, w) == Minus(Twice(Ratio(x, w)), Height(1))

\* ndcY = 1 - (y / height) * 2.
NdcY(y, h) == Minus(Height(1), Twice(Ratio(y, h)))

\* a * a.
Squared(a) == Product(a, a)

\* screenX * screenX + screenY * screenY, the argument of the sqrt that
\* gives distFromCenter, for the double r of sphereRadius.
DistSquared(x, y, w, h, r) ==
  Plus(Squared(Product(NdcX(x, w), r)), Squared(Product(NdcY(y, h), r)))

\* distFromCenter > sphereRadius * 1.5, in the doubles of the source, for
\* the double r of sphereRadius.
OutOfReach(x, y, w, h, r) ==
  SqrtAbove(DistSquared(x, y, w, h, r), Product(r, Ratio(15, 10)))

\* distFromCenter < sphereRadius: the point projects onto the front
\* hemisphere with z > 0; otherwise z = 0.
OnDisc(x, y, w, h, r) == SqrtBelow(DistSquared(x, y, w, h, r), r)

\* <<theta, phi>> = <<atan2(z, x), acos(y / r)>> of the projected point, in
\* pi/12, for the pointer positions whose angles are multiples of pi/12.
\* On the disc: theta is pi/2 on the vertical axis and pi/3, 2pi/3 at
\* ndcX = 1/2, -1/2 on the horizontal axis; phi = acos(ndcY).
\* Off the disc (z = 0): theta is 0 for ndcX >= 0 and pi for ndcX < 0; phi
\* is the colatitude of the direction (ndcX, ndcY).
SurfaceAngles(x, y, w, h, r) ==
  LET nx == 2 * x - w
      ny == h - 2 * y
      diag == nx * nx * h * h = ny * ny * w * w
  IN  IF OnDisc(x, y, w, h, r)
        THEN << CASE nx = 0 -> 6
                  [] ny = 0 /\ 2 * nx = w -> 4
                  [] ny = 0 /\ 2 * nx = -w -> 8,
                CASE ny = 0 -> 6
                  [] 2 * ny = h -> 4
                  [] 2 * ny = -h -> 8 >>
        ELSE << IF nx >= 0 THEN 0 ELSE 12,
                CASE ny = 0 -> 6
                  [] nx = 0 /\ ny > 0 -> 0
                  [] nx = 0 /\ ny < 0 -> 12
                  [] nx # 0 /\ diag /\ ny > 0 -> 3
                  [] nx # 0 /\ diag /\ ny < 0 -> 9 >>

\* The history of one injection: the grid operation and the cells written
\* since the last step (in pending, 0 = not written; an impulse value is
\* never 0).
LogEntry(theta, phi, isFirstTouch) ==
  IF isFirstTouch
    THEN <<"point", ThetaIndex(theta, heightfieldCols),
           PhiIndex(phi, heightfieldRows)>>
    ELSE <<"path", ThetaIndex(lastDrawTheta, heightfieldCols),
           PhiIndex(lastDrawPhi, heightfieldRows),
           ThetaIndex(theta, heightfieldCols),
           PhiIndex(phi, heightfieldRows)>>

\* Mutant: the impulse is written into heightfieldCurrent as well.
handleInteractionIntoBoth(x, y, isFirstTouch) ==
  IF OutOfReach(x, y, width, height, RadiusOf(sphereRadius))
    THEN /\ UNCHANGED <<grid, cursor, notifications, pending, log>>
         /\ cursorFresh' = (~isFirstTouch /\ cursorFresh)
    ELSE LET ang == SurfaceAngles(x, y, width, height,
                                  RadiusOf(sphereRadius))
             ws == ImpulseWrites(ang[1], ang[2], isFirstTouch,
                                 lastDrawTheta, lastDrawPhi, impulseStrength,
                                 heightfieldCols, heightfieldRows)
         IN  /\ heightfieldPrevious' =
                  addHeightfieldImpulse(heightfieldPrevious, ang[1], ang[2],
                                        isFirstTouch, lastDrawTheta,
                                        lastDrawPhi, impulseStrength,
                                        heightfieldCols, heightfieldRows)
             /\ heightfieldCurrent' = ApplyWrites(heightfieldCurrent, ws)
             /\ lastDrawTheta' = ang[1]
             /\ lastDrawPhi' = ang[2]
             /\ notifications' =
                  IF isFirstTouch THEN notifications + 1 ELSE notifications
             /\ pending' = ApplyWrites(pending, ws)
             /\ log' = Append(log, LogEntry(ang[1], ang[2], isFirstTouch))
             /\ cursorFresh' = TRUE

\* handleInteraction from the call of addHeightfieldImpulse on, for the
\* angles ang = <<theta, phi>> of the projected point.
Interaction(ang, isFirstTouch) ==
  /\ heightfieldPrevious' =
       addHeightfieldImpulse(heightfieldPrevious, ang[1], ang[2],
                             isFirstTouch, lastDrawTheta, lastDrawPhi,
                             impulseStrength, heightfieldCols,
                             heightfieldRows)
  /\ heightfieldCurrent' =
       IF currentRef = previousRef
         THEN heightfieldPrevious'
         ELSE heightfieldCurrent
  /\ lastDrawTheta' = ang[1]
  /\ lastDrawPhi' = ang[2]
  /\ notifications' =
       IF isFirstTouch THEN notifications + 1 ELSE notifications
  /\ pending' =
       ApplyWrites(pending,
                   ImpulseWrites(ang[1], ang[2], isFirstTouch, lastDrawTheta,
                                 lastDrawPhi, impulseStrength,
                                 heightfieldCols, heightfieldRows))
  /\ log' = Append(log, LogEntry(ang[1], ang[2], isFirstTouch))
  /\ cursorFresh' = TRUE

\* handleInteraction(x, y, isFirstTouch): reject a point farther than
\* 1.5 radii, else project, call addHeightfieldImpulse, store the angles,
\* and on a first touch play the sound and vibrate.  The impulse is written
\* into the array heightfieldPrevious refers to, and shows in
\* heightfieldCurrent if that were the same array.
handleInteraction(x, y, isFirstTouch) ==
  IF OutOfReach(x, y, width, height, RadiusOf(sphereRadius))
    THEN /\ UNCHANGED <<grid, cursor, notifications, pending, log>>
         /\ cursorFresh' = (~isFirstTouch /\ cursorFresh)
    ELSE Interaction(SurfaceAngles(x, y, width, height,
                                   RadiusOf(sphereRadius)),
                     isFirstTouch)

(* ------------------------------ callbacks ------------------------------ *)

\* Every input callback is counted against the budget.
Called ==
  /\ calls < maxCalls
  /\ calls' = calls + 1

\* Math.hypot(a / 2, b / 2) for integers a, b >= 0 and their maximum
\* m > 0, as the JavaScript engine computes it: each argument is divided
\* by the greatest, the squares of the quotients are added and the root of
\* the sum is multiplied by the greatest.  (The compensation of the
\* engine's summation is 0 for two terms.)
Scaled(a, b, m) ==
  Product(Sqrt(Plus(Squared(Ratio(a, m)), Squared(Ratio(b, m)))),
          Half(Height(m)))

\* dist(x1, y1, 0, 0) of p5.js, which is Math.hypot(0 - x1, 0 - y1), for
\* x1 = dx / 2 and y1 = dy / 2.
Dist(dx, dy) ==
  IF dx = 0 /\ dy = 0 THEN Zero
  ELSE Scaled(Abs(dx), Abs(dy), Max(Abs(dx), Abs(dy)))

\* dist(mouseX - width/2, mouseY - height/2, 0, 0) < sphereRadius * 1.5,
\* in the doubles of the source, with radius in tenths of a pixel.
DistBelow(x, y, w, h, radius) ==
  ExactLess(Dist(2 * x - w, 2 * y - h),
            Product(RadiusOf(radius), Ratio(15, 10)))

\* The <<x, y, width, height, sphereRadius>> of the pointers, canvases and
\* radii of the model.
NearInputs ==
  {<<p[1], p[2], s[1], s[2], 3 * Min(t[1], t[2])>> :
     p \in Pointers, s \in WindowSizes, t \in WindowSizes}

\* The inputs of the model that pass the test, which is computed once for
\* each of them.
NearTested == {c \in NearInputs : DistBelow(c[1], c[2], c[3], c[4], c[5])}

\* The test of mousePressed whether the click is near the sphere: looked
\* up for an input of the model, computed for any other.
NearSphere(x, y, w, h, radius) ==
  IF <<x, y, w, h, radius>> \in NearInputs
    THEN <<x, y, w, h, radius>> \in NearTested
    ELSE DistBelow(x, y, w, h, radius)

\* The two variables after the rotation, rot = <<heightfieldPrevious,
\* heightfieldCurrent>> as pairs <<array object, cells>>.
AssignBuffers(rot) ==
  /\ previousRef' = rot[1][1]
  /\ heightfieldPrevious' = rot[1][2]
  /\ currentRef' = rot[2][1]
  /\ heightfieldCurrent' = rot[2][2]

\* Mutant: draw() without the early return, stepping under the instructions.
drawWithoutEarlyReturn ==
  /\ time < 16 * MaxFrames
  /\ time' = time + 16
  /\ UNCHANGED calls
  /\ AssignBuffers(
       RotateBuffers(<<currentRef, heightfieldCurrent>>,
                     <<NewBuffer(currentRef, previousRef),
                       updateHeightfield(heightfieldPrevious,
                                         heightfieldCurrent, heightfieldCols,
                                         heightfieldRows, damping)>>))
  /\ pending' = ZeroField(heightfieldCols, heightfieldRows)
  /\ log' = Append(log, <<"tick">>)
  /\ UNCHANGED <<config, canvas, mouse, cursor, isDrawing, showInstructions,
                 notifications, drawingBegins, cursorFresh>>

\* One call of draw(): advance time; while the instructions show, nothing
\* else; else one updateHeightfield, which rotates the buffers.  p5 calls
\* draw() for every frame and, through redraw(), inside resizeCanvas.
redraw ==
  /\ time < 16 * MaxFrames
  /\ time' = time + 16
  /\ IF showInstructions
       THEN UNCHANGED <<grid, refs, pending, log>>
       ELSE /\ AssignBuffers(
                 RotateBuffers(<<currentRef, heightfieldCurrent>>,
                               <<NewBuffer(currentRef, previousRef),
                                 updateHeightfield(heightfieldPrevious,
                                                   heightfieldCurrent,
                                                   heightfieldCols,
                                                   heightfieldRows,
                                                   damping)>>))
            /\ pending' = ZeroField(heightfieldCols, heightfieldRows)
            /\ log' = Append(log, <<"tick">>)

\* draw() as the frame callback.
draw ==
  /\ redraw
  /\ UNCHANGED <<config, canvas, mouse, cursor, isDrawing, showInstructions,
                 notifications, drawingBegins, cursorFresh, calls>>

touchStarted(touches) ==
  /\ Called
  /\ IF showInstructions
       THEN /\ showInstructions' = FALSE
            /\ UNCHANGED <<grid, cursor, notifications, pending, log,
                           isDrawing, drawingBegins, cursorFresh>>
       ELSE /\ UNCHANGED showInstructions
            /\ IF Len(touches) > 0
                 THEN /\ isDrawing' = TRUE
                      /\ drawingBegins' = drawingBegins + 1
                      /\ handleInteraction(touches[1][1], touches[1][2], TRUE)
                 ELSE UNCHANGED <<grid, cursor, notifications, pending, log,
                                  isDrawing, drawingBegins, cursorFresh>>
  /\ UNCHANGED <<config, canvas, mouse, time, refs>>

touchMoved(touches) ==
  /\ Called
  /\ IF isDrawing /\ Len(touches) > 0
       THEN handleInteraction(touches[1][1], touches[1][2], FALSE)
       ELSE UNCHANGED <<grid, cursor, notifications, pending, log,
                        cursorFresh>>
  /\ UNCHANGED <<config, canvas, mouse, time, isDrawing, showInstructions,
                 drawingBegins, refs>>

touchEnded ==
  /\ Called
  /\ isDrawing' = FALSE
  /\ cursorFresh' = FALSE
  /\ UNCHANGED <<config, canvas, mouse, cursor, grid, refs, time,
                 showInstructions, notifications, drawingBegins, pending, log>>

\* Mutant: the dismissing press does not return and goes on to begin a
\* gesture.
mousePressedWithoutReturn(mouseX, mouseY) ==
  /\ Called
  /\ showInstructions' = FALSE
  /\ UNCHANGED <<rotationX, rotationY>>
  /\ lastMouseX' = mouseX
  /\ lastMouseY' = mouseY
  /\ IF NearSphere(mouseX, mouseY, width, height, sphereRadius)
       THEN /\ isDragging' = FALSE
            /\ isDrawing' = TRUE
            /\ drawingBegins' = drawingBegins + 1
            /\ handleInteraction(mouseX, mouseY, TRUE)
       ELSE /\ isDragging' = TRUE
            /\ UNCHANGED <<grid, cursor, notifications, pending, log,
                           isDrawing, drawingBegins, cursorFresh>>
  /\ UNCHANGED <<config, canvas, time, refs>>

mousePressed(mouseX, mouseY) ==
  /\ Called
  /\ IF showInstructions
       THEN /\ showInstructions' = FALSE
            /\ UNCHANGED <<mouse, grid, cursor, notifications, pending, log,
                           isDrawing, drawingBegins, cursorFresh>>
       ELSE /\ UNCHANGED <<showInstructions, rotationX, rotationY>>
            /\ lastMouseX' = mouseX
            /\ lastMouseY' = mouseY
            /\ IF NearSphere(mouseX, mouseY, width, height, sphereRadius)
                 THEN /\ isDragging' = FALSE
                      /\ isDrawing' = TRUE
                      /\ drawingBegins' = drawingBegins + 1
                      /\ handleInteraction(mouseX, mouseY, TRUE)
                 ELSE /\ isDragging' = TRUE
                      /\ UNCHANGED <<grid, cursor, notifications, pending,
                                     log, isDrawing, drawingBegins,
                                     cursorFresh>>
  /\ UNCHANGED <<config, canvas, time, refs>>

mouseDragged(mouseX, mouseY) ==
  /\ Called
  /\ IF isDragging
       THEN /\ rotationY' = rotationY + 100 * (mouseX - lastMouseX)
            /\ rotationX' = constrain(rotationX + 100 * (mouseY - lastMouseY),
                                      -HalfPi, HalfPi)
            /\ lastMouseX' = mouseX
            /\ lastMouseY' = mouseY
            /\ UNCHANGED <<isDragging, grid, cursor, notifications, pending,
                           log, cursorFresh>>
       ELSE /\ UNCHANGED mouse
            /\ IF isDrawing
                 THEN handleInteraction(mouseX, mouseY, FALSE)
                 ELSE UNCHANGED <<grid, cursor, notifications, pending, log,
                                  cursorFresh>>
  /\ UNCHANGED <<config, canvas, time, isDrawing, showInstructions,
                 drawingBegins, refs>>

mouseReleased ==
  /\ Called
  /\ isDragging' = FALSE
  /\ isDrawing' = FALSE
  /\ cursorFresh' = FALSE
  /\ UNCHANGED <<config, canvas, rotationX, rotationY, lastMouseX, lastMouseY,
                 cursor, grid, refs, time, showInstructions, notifications,
                 drawingBegins, pending, log>>

\* windowResized(): resizeCanvas(windowWidth, windowHeight), which without
\* its noRedraw argument redraws, so one draw() runs before it returns; then
\* the radius of setup.  The browser also reports a resize to the same size.
windowResized(size) ==
  /\ Called
  /\ width' = size[1]
  /\ height' = size[2]
  /\ redraw
  /\ sphereRadius' = 3 * Min(size[1], size[2])
  /\ UNCHANGED <<config, mouse, cursor, isDrawing, showInstructions,
                 notifications, drawingBegins, cursorFresh>>

(* ---------------------------- specification ---------------------------- *)

\* The state setup() leaves, on a cols x rows grid.
setup(cols, rows, damp, strength, budget) ==
  /\ heightfieldCols = cols
  /\ heightfieldRows = rows
  /\ damping = damp
  /\ impulseStrength = strength
  /\ maxCalls = budget
  /\ \E size \in WindowSizes :
       /\ width = size[1]
       /\ height = size[2]
       /\ sphereRadius = 3 * Min(size[1], size[2])
  /\ rotationX = 0
  /\ rotationY = 0
  /\ isDragging = FALSE
  /\ lastMouseX = 0
  /\ lastMouseY = 0
  /\ isDrawing = FALSE
  /\ lastDrawTheta = 0
  /\ lastDrawPhi = 0
  /\ time = 0
  /\ showInstructions = TRUE
  /\ heightfieldCurrent = ZeroField(cols, rows)
  /\ heightfieldPrevious = ZeroField(cols, rows)
  /\ currentRef = 1
  /\ previousRef = 2
  /\ calls = 0
  /\ notifications = 0
  /\ drawingBegins = 0
  /\ pending = ZeroField(cols, rows)
  /\ log = << >>
  /\ cursorFresh = FALSE

Init == setup(Cols, Rows, CodeDamping, CodeImpulseStrength, MaxCalls)

Next ==
  \/ draw
  \/ \E touches \in TouchLists : touchStarted(touches)
  \/ \E touches \in TouchLists : touchMoved(touches)
  \/ touchEnded
  \/ \E p \in Pointers : mousePressed(p[1], p[2])
  \/ \E p \in Pointers : mouseDragged(p[1], p[2])
  \/ mouseReleased
  \/ \E size \in WindowSizes : windowResized(size)

Spec == Init /\ [][Next]_vars

\* The concrete scenario of the design: an 8 x 5 grid, damping 1.0 and
\* impulse strength 8.
InitScenario == setup(8, 5, 1000, 8, MaxCalls)

SpecScenario == InitScenario /\ [][Next]_vars

\* The source's constants on a grid wide enough for a long drag.
InitWide == setup(WideCols, 3, CodeDamping, CodeImpulseStrength, WideCalls)

SpecWide == InitWide /\ [][Next]_vars

(* ------------------------- history predicates -------------------------- *)

\* The columns and rows of the grid.
ColsOf == 0..(heightfieldCols - 1)

RowsOf == 0..(heightfieldRows - 1)

\* The interior rows 1 .. rows-2.
Interior == 1..(heightfieldRows - 2)

\* The step taken is a frame.
IsFrame == time' # time

\* The step taken is a frame that ran updateHeightfield.
IsTick == log' = Append(log, <<"tick">>)

\* The step taken is one addHeightfieldImpulse call.
IsInjection ==
  /\ Len(log') = Len(log) + 1
  /\ log'[Len(log')][1] \in {"point", "path"}

\* The number of updateHeightfield calls so far.
Ticks == Cardinality({k \in 1..Len(log) : log[k] = <<"tick">>})

\* Some cell of buf is non-zero.
NonZero(buf) == \E i \in ColsOf, j \in RowsOf : buf[i][j] # Zero

(* ------------------------------ C1 ------------------------------------- *)

\* C1 (boundary invariant): in every reachable state every cell of row 0
\* and of row rows-1 is 0 in heightfieldCurrent and in heightfieldPrevious.
BoundaryRowsZero ==
  \A i \in ColsOf :
    /\ heightfieldCurrent[i][0] = Zero
    /\ heightfieldCurrent[i][heightfieldRows - 1] = Zero
    /\ heightfieldPrevious[i][0] = Zero
    /\ heightfieldPrevious[i][heightfieldRows - 1] = Zero

\* Reached: after injections and steps, with waves on the row next to each
\* boundary row in both buffers.
BoundaryRowsZeroWitness ==
  /\ Ticks >= 2
  /\ \E k \in 1..Len(log) : log[k][1] = "path"
  /\ \E i \in ColsOf : heightfieldCurrent[i][1] # Zero
  /\ \E i \in ColsOf : heightfieldCurrent[i][heightfieldRows - 2] # Zero
  /\ \E i \in ColsOf : heightfieldPrevious[i][1] # Zero
  /\ \E i \in ColsOf : heightfieldPrevious[i][heightfieldRows - 2] # Zero

(* ------------------------------ C2 ------------------------------------- *)

\* The lowest exponent of the non-zero cells of the buffers in bufs.
LowestExp(bufs) ==
  LET exps == {buf[i][j].exp : <<buf, i, j>> \in
                 {t \in bufs \X ColsOf \X RowsOf : t[1][t[2]][t[3]] # Zero}}
  IN  IF exps = {} THEN 0
      ELSE CHOOSE e \in exps : \A f \in exps : e <= f

RECURSIVE SquareSum(_, _, _, _, _)
\* The sum of the squares of the cells first .. last of buf (counted column
\* by column from 0), exactly, in units of 2^(2 * low).
SquareSum(buf, rows, first, last, low) ==
  IF first = last
    THEN LET c == buf[first \div rows][first % rows]
         IN  ShiftLeft(Times(c.man, c.man), 2 * (c.exp - low))
    ELSE LET mid == (first + last) \div 2
         IN  AddLimbs(SquareSum(buf, rows, first, mid, low),
                      SquareSum(buf, rows, mid + 1, last, low), 1)

\* Total squared grid energy of the two buffers, in units of 2^(2 * low).
Energy(cur, prev, low) ==
  LET n == heightfieldCols * heightfieldRows
  IN  AddLimbs(SquareSum(cur, heightfieldRows, 0, n - 1, low),
               SquareSum(prev, heightfieldRows, 0, n - 1, low), 1)

\* e1 < e2 and e1 <= e2 on energies.
EnergyLess(e1, e2) == Less(e1, e2)

EnergyLeq(e1, e2) == e1 = e2 \/ EnergyLess(e1, e2)

\* C2 (decay): with damping < 1, every updateHeightfield leaves the total
\* squared energy of the two buffers no larger than before, and strictly
\* smaller when some cell was non-zero.
EnergyDecays ==
  [][ (IsTick /\ damping < 1000) =>
        LET low == LowestExp({heightfieldCurrent, heightfieldPrevious,
                              heightfieldCurrent', heightfieldPrevious'})
            before == Energy(heightfieldCurrent, heightfieldPrevious, low)
            after == Energy(heightfieldCurrent', heightfieldPrevious', low)
        IN  /\ EnergyLeq(after, before)
            /\ (NonZero(heightfieldCurrent) \/ NonZero(heightfieldPrevious))
                 => EnergyLess(after, before) ]_vars

(* ------------------------------ C3 ------------------------------------- *)

\* Every cell written by an injection since the last step still holds the
\* last value injected into it.
PendingHeld ==
  \A i \in ColsOf, j \in RowsOf :
    pending[i][j] # Zero => heightfieldPrevious[i][j] = pending[i][j]

\* C3 (ordering guarantee): injections made between two steps stay in
\* heightfieldPrevious until a step, only a step removes them, and that
\* step computes the new current buffer from the previous buffer holding
\* them.
InjectionVisibleToStep ==
  [][ /\ PendingHeld
      /\ PendingHeld'
      /\ (\E i \in ColsOf, j \in RowsOf :
            pending[i][j] # Zero /\ pending'[i][j] # pending[i][j])
           => (IsTick \/ IsInjection)
      /\ IsTick =>
           \A i \in ColsOf, j \in Interior :
             heightfieldCurrent'[i][j] =
               WaveCell(heightfieldPrevious, heightfieldCurrent, i, j,
                        heightfieldCols, Ratio(damping, 1000)) ]_vars

\* Reached: a step has just read a buffer into which two injections were
\* made since the step before.
InjectionVisibleToStepWitness ==
  /\ Len(log) >= 4
  /\ log[Len(log)] = <<"tick">>
  /\ log[Len(log) - 1][1] = "path"
  /\ log[Len(log) - 2][1] = "point"
  /\ log[Len(log) - 3] = <<"tick">>
  /\ NonZero(heightfieldCurrent)

(* ------------------------------ C4 ------------------------------------- *)

\* C4 (injection idempotence): whenever the program makes a single-point
\* injection, in any grid state, making it a second time with the same
\* arguments and no step in between leaves heightfieldPrevious as the first
\* call left it (heightfieldCurrent is not written and the stored angles
\* are those same arguments).
PointInjectionIdempotent ==
  [][ (IsInjection /\ log'[Len(log')][1] = "point") =>
        addHeightfieldImpulse(heightfieldPrevious', lastDrawTheta',
                              lastDrawPhi', TRUE, lastDrawTheta',
                              lastDrawPhi', impulseStrength, heightfieldCols,
                              heightfieldRows)
          = heightfieldPrevious' ]_vars

\* Reached: after a step, the program has made the same point injection
\* twice in a row.
PointInjectionIdempotentWitness ==
  /\ Len(log) >= 3
  /\ log[Len(log)][1] = "point"
  /\ log[Len(log) - 1] = log[Len(log)]
  /\ log[Len(log) - 2] = <<"tick">>
  /\ NonZero(heightfieldPrevious)

(* ------------------------------ C5 ------------------------------------- *)

\* C5 as stated (concrete scenario), the decimals read as doubles: on the
\* 8 x 5 grid with damping 1.0 and strength 8, after a point injection at
\* (4, 2) into an all-zero grid the eight neighbours of (4, 2) sum to 44.8,
\* and after exactly one step more current[4][2] = 5.6.
ScenarioCentreValue ==
  /\ log = << <<"point", 4, 2>> >> =>
       NeighbourSum(heightfieldPrevious, 4, 2, heightfieldCols)
         = Ratio(448, 10)
  /\ log = << <<"point", 4, 2>>, <<"tick">> >> =>
       heightfieldCurrent[4][2] = Ratio(56, 10)

\* The double next above the positive double a.
NextAbove(a) == Double(a.neg, AddLimbs(a.man, <<1>>, 1), a.exp)

\* C5, amended to the doubles the source computes: in that scenario each
\* of the eight neighbours holds 8 * 0.7, the double 5.6; their sum from
\* left to right rounds to 44.800000000000004, the double next above 44.8;
\* and after exactly one step more current[4][2] is an eighth of that sum,
\* 5.6000000000000005, the double next above 5.6.
ScenarioCentreDouble ==
  /\ log = << <<"point", 4, 2>> >> =>
       /\ \A c \in ((3..5) \X (1..3)) \ {<<4, 2>>} :
            heightfieldPrevious[c[1]][c[2]] = Ratio(56, 10)
       /\ NeighbourSum(heightfieldPrevious, 4, 2, heightfieldCols)
            = NextAbove(Ratio(448, 10))
  /\ log = << <<"point", 4, 2>>, <<"tick">> >> =>
       /\ heightfieldCurrent[4][2] = NextAbove(Ratio(56, 10))
       /\ heightfieldCurrent[4][2] = Eighth(NextAbove(Ratio(448, 10)))

\* Reached: the scenario's injection and its one step.
ScenarioCentreDoubleWitness ==
  /\ heightfieldCols = 8
  /\ heightfieldRows = 5
  /\ damping = 1000
  /\ impulseStrength = 8
  /\ log = << <<"point", 4, 2>>, <<"tick">> >>
  /\ heightfieldPrevious = ZeroField(8, 5)

(* ------------------------------ C6 ------------------------------------- *)

\* The grid history is one point injection centred at column 0 followed by
\* steps only.
OnlyPointAtColumnZero ==
  /\ Len(log) >= 1
  /\ log[1][1] = "point"
  /\ log[1][2] = 0
  /\ \A k \in 2..Len(log) : log[k] = <<"tick">>

NeighbouringDoubles(a, b) ==
  \/ a = b
  \/ /\ a # Zero
     /\ b # Zero
     /\ a.neg = b.neg
     /\ Minus(a, b).exp + MantissaBits - 1 <= Max(a.exp, b.exp)

PathCoversEveryColumn ==
  \A n \in 1..Len(log) :
    (log[n][1] = "path" /\ log[n][2] = 0 /\ log[n][3] = log[n][5]) =>
      LET r == log[n][3]
          k == log[n][4]
          cells == PathCells(0, r, k, r, heightfieldCols, heightfieldRows)
      IN  /\ Len(cells) = k + 1
          /\ \A c \in 1..(k + 1) : cells[c] = <<c - 1, r>>

(* ------------------------------ C8 ------------------------------------- *)

\* C8 (fresh-tap notification): a callback plays the sound and vibrates
\* exactly once if it is a gesture begin that sets isDrawing, and not at all
\* otherwise (a move, an end, a begin that does not enter Drawing).
FreshTapPerDrawingBegin ==
  [][ notifications' - notifications = drawingBegins' - drawingBegins ]_vars

(* ------------------------------ C9 ------------------------------------- *)

\* C9 (gesture classification): once the instructions are dismissed, a
\* begin by mousePressed or by touchStarted within 1.5 x sphereRadius of the
\* centre sets isDrawing, a begin farther away sets isDragging instead, and
\* a move of a rotating gesture leaves the grid alone.
GestureClassifiedByDistance ==
  [][ \A p \in Pointers :
        /\ (~showInstructions
            /\ (touchStarted(<<p>>) \/ mousePressed(p[1], p[2])))
             => IF NearSphere(p[1], p[2], width, height, sphereRadius)
                  THEN isDrawing'
                  ELSE isDragging'
        /\ (isDragging /\ mouseDragged(p[1], p[2])) => UNCHANGED grid ]_vars

(* ------------------------------ C10 ------------------------------------ *)

\* C10 (mutual exclusion of gesture states): isDragging and isDrawing are
\* never both true.
NeverDraggingAndDrawing == ~(isDragging /\ isDrawing)

(* ------------------------------ C11 ------------------------------------ *)

\* The angles addHeightfieldImpulse can be passed, in pi/12: theta in
\* [-pi, pi] and phi in [0, pi].
AngleThetas == -12..12

AnglePhis == 0..12

\* buf has exactly the cells of the cols x rows grid.
BufferShape(buf) ==
  /\ DOMAIN buf = ColsOf
  /\ \A i \in ColsOf : DOMAIN buf[i] = RowsOf

\* Every write of the sequence ws goes to a column of the grid and to an
\* interior row.
WritesInRange(ws) ==
  \A n \in DOMAIN ws : ws[n][1] \in ColsOf /\ ws[n][2] \in Interior

\* Every write of the path injection from (lt, lp) to (ti, pj) is in range:
\* each interpolated cell, and the eight writes of its neighbour loop.
PathWritesInRange(lt, lp, ti, pj, around) ==
  LET cells == PathCells(lt, lp, ti, pj, heightfieldCols, heightfieldRows)
  IN  \A k \in DOMAIN cells :
        /\ cells[k][1] \in ColsOf
        /\ cells[k][2] \in Interior
        /\ WritesInRange(NeighbourWrites(cells[k][1], cells[k][2], around,
                                         heightfieldCols, heightfieldRows))

\* The cells updateHeightfield reads for cell (i, j): the eight neighbours
\* in heightfieldPrevious and (i, j) in heightfieldCurrent.
StepReads(i, j, cols) ==
  LET iPrev == WrapPrev(i, cols)
      iNext == WrapNext(i, cols)
  IN  { <<iPrev, j>>, <<iNext, j>>, <<i, j - 1>>, <<i, j + 1>>,
        <<iPrev, j - 1>>, <<iPrev, j + 1>>, <<iNext, j - 1>>,
        <<iNext, j + 1>>, <<i, j>> }

\* C11 (no out-of-range grid access): in every reachable state, for every
\* theta in [-pi, pi] and phi in [0, pi] that addHeightfieldImpulse may be
\* passed next and the last-drawn angle it has stored, every cell the point
\* injection and the path injection write has its column in [0, cols-1] and
\* its row in [1, rows-2]; every cell updateHeightfield reads has its column
\* in [0, cols-1] and its row in [0, rows-1]; and both buffers have exactly
\* cols x rows cells.
NoOutOfRangeAccess ==
  LET cols == heightfieldCols
      rows == heightfieldRows
      targets == {ThetaIndex(theta, cols) : theta \in AngleThetas}
                 \X {PhiIndex(phi, rows) : phi \in AnglePhis}
      around == Falloff(impulseStrength, 6)
  IN  /\ BufferShape(heightfieldCurrent)
      /\ BufferShape(heightfieldPrevious)
      /\ lastDrawTheta \in AngleThetas
      /\ lastDrawPhi \in AnglePhis
      /\ \A c \in targets :
           /\ WritesInRange(PointWrites(c[1], c[2], impulseStrength,
                                        cols, rows))
           /\ PathWritesInRange(ThetaIndex(lastDrawTheta, cols),
                                PhiIndex(lastDrawPhi, rows), c[1], c[2],
                                around)
      /\ \A i \in ColsOf, j \in Interior :
           StepReads(i, j, cols) \subseteq ColsOf \X RowsOf

\* Reached: a drag has been drawn from a stored angle back to column 0,
\* whose neighbour loop writes column cols-1 and rows 1 and rows-2, and a
\* step has read the grid since.
NoOutOfRangeAccessWitness ==
  /\ Ticks >= 1
  /\ \E k \in 1..Len(log) :
       log[k][1] = "path" /\ log[k][2] > 0 /\ log[k][4] = 0
  /\ \E j \in Interior : heightfieldCurrent[heightfieldCols - 1][j] # Zero
  /\ \E i \in ColsOf : heightfieldCurrent[i][1] # Zero
  /\ \E i \in ColsOf : heightfieldCurrent[i][heightfieldRows - 2] # Zero

(* ------------------------------ C12 ------------------------------------ *)

\* C12 as stated (one step per tick): every draw() executes
\* updateHeightfield exactly once, so after n frames exactly n steps have
\* been executed.
StepsEqualFrames == 16 * Ticks = time

\* C12, amended: a draw() executes updateHeightfield exactly once when the
\* instructions are dismissed and not at all while they show; the grid is
\* all zero while they show, so after every frame the grid is what one step
\* makes of the grid before it.
OneStepPerFrameOnceDismissed ==
  [][ IsFrame =>
        /\ IsTick <=> ~showInstructions
        /\ Len(log') = Len(log) + (IF showInstructions THEN 0 ELSE 1)
        /\ heightfieldCurrent' =
             updateHeightfield(heightfieldPrevious, heightfieldCurrent,
                               heightfieldCols, heightfieldRows, damping)
        /\ heightfieldPrevious' = heightfieldCurrent ]_vars

\* Reached: a frame under the instructions, then, after an injection, two
\* frames that stepped a moving grid.
OneStepPerFrameOnceDismissedWitness ==
  /\ time = 48
  /\ Ticks = 2
  /\ log[Len(log)] = <<"tick">>
  /\ NonZero(heightfieldCurrent)
  /\ NonZero(heightfieldPrevious)

(* ------------------------------ C13 ------------------------------------ *)

\* The cells of the wrapped and clamped 3 x 3 neighbourhood of (ti, pj).
Neighbourhood(ti, pj) ==
  { <<(ti + di + heightfieldCols) % heightfieldCols,
      constrain(pj + dj, 1, heightfieldRows - 2)>> :
      di \in -1..1, dj \in -1..1 }

\* C13 (point-injection result): immediately after a single-point injection
\* at any column and any row of [1, rows-2], rows 1 and rows-2 included, the
\* centre cell of heightfieldPrevious holds the strength and every other
\* cell of its wrapped and clamped 3 x 3 neighbourhood holds 0.7 of it.
PointInjectionResult ==
  [][ (IsInjection /\ log'[Len(log')][1] = "point") =>
        LET ti == log'[Len(log')][2]
            pj == log'[Len(log')][3]
        IN  /\ heightfieldPrevious'[ti][pj] = Height(impulseStrength)
            /\ \A c \in Neighbourhood(ti, pj) \ {<<ti, pj>>} :
                 heightfieldPrevious'[c[1]][c[2]]
                   = Falloff(impulseStrength, 7) ]_vars

(* ------------------------------ C14 ------------------------------------ *)

\* C14 (path-injection result): immediately after a path injection every
\* interpolated cell of the path holds the strength in heightfieldPrevious,
\* and every other cell of the neighbourhoods of the path's cells holds 0.6
\* of it.
PathInjectionResult ==
  [][ (IsInjection /\ log'[Len(log')][1] = "path") =>
        LET e == log'[Len(log')]
            cells == PathCells(e[2], e[3], e[4], e[5],
                               heightfieldCols, heightfieldRows)
            centres == {cells[k] : k \in DOMAIN cells}
            touched == UNION {Neighbourhood(c[1], c[2]) : c \in centres}
        IN  /\ \A c \in centres :
                 heightfieldPrevious'[c[1]][c[2]] = Height(impulseStrength)
            /\ \A c \in touched \ centres :
                 heightfieldPrevious'[c[1]][c[2]]
                   = Falloff(impulseStrength, 6) ]_vars

(* ------------------------------ C15 ------------------------------------ *)

\* C15 (drag continuity): the start angle of every path injection a move
\* event triggers was recorded by an injection of the same gesture, the
\* begin tap or an earlier move, whatever the pointer positions.
\* (cursorFresh: the stored angle was recorded by an injection made since
\* the gesture began.)
DragContinuity ==
  [][ (IsInjection /\ log'[Len(log')][1] = "path") => cursorFresh ]_vars

(* ------------------------------ C16 ------------------------------------ *)

\* C16 (buffer rotation without aliasing): heightfieldCurrent and
\* heightfieldPrevious never refer to the same array; every
\* updateHeightfield leaves heightfieldPrevious referring to the array that
\* was current, cell for cell as before the step, and heightfieldCurrent
\* referring to a newly made array holding the wave rule's result; and an
\* injection, which writes through heightfieldPrevious, leaves every cell of
\* heightfieldCurrent as it was.
RotationWithoutAliasing ==
  [][ /\ currentRef # previousRef
      /\ currentRef' # previousRef'
      /\ IsTick =>
           /\ previousRef' = currentRef
           /\ heightfieldPrevious' = heightfieldCurrent
           /\ currentRef' \notin {currentRef, previousRef}
           /\ heightfieldCurrent' =
                updateHeightfield(heightfieldPrevious, heightfieldCurrent,
                                  heightfieldCols, heightfieldRows, damping)
      /\ IsInjection => heightfieldCurrent' = heightfieldCurrent ]_vars

\* Reached: after a step rotated the buffers of a moving grid, an injection
\* was written into the array that was current before the step.
RotationWithoutAliasingWitness ==
  /\ Len(log) >= 3
  /\ log[Len(log)][1] = "path"
  /\ log[Len(log) - 1] = <<"tick">>
  /\ log[Len(log) - 2][1] = "point"
  /\ previousRef = 1
  /\ currentRef = 3
  /\ NonZero(heightfieldCurrent)
  /\ heightfieldCurrent # heightfieldPrevious

(* ------------------------------ C17 ------------------------------------ *)

\* C17 (gesture end returns to Idle): after any sequence of callbacks,
\* immediately after mouseReleased or touchEnded both isDragging and
\* isDrawing are false, and a move event that follows while both are false
\* injects nothing and rotates nothing.
GestureEndReturnsToIdle ==
  [][ /\ (touchEnded \/ mouseReleased) => (~isDragging' /\ ~isDrawing')
      /\ \A p \in Pointers :
           (~isDragging /\ ~isDrawing
            /\ (touchMoved(<<p>>) \/ mouseDragged(p[1], p[2])))
             => UNCHANGED <<grid, cursor, rotationX, rotationY>> ]_vars

(* ------------------------------ C18 ------------------------------------ *)

\* C18 (frame condition for non-drawing events): a mouseDragged while
\* isDragging is true, a mouseReleased, a touchEnded, a move event while
\* neither flag is set, and a windowResized leave both buffers and the
\* stored last-drawn angle unchanged; the grid changes only in a tick or in
\* an injection by a begin or move event of a drawing gesture.
NonDrawingEventsKeepGrid ==
  [][ /\ (touchEnded \/ mouseReleased) => UNCHANGED <<grid, cursor>>
      /\ \A size \in WindowSizes :
           windowResized(size) => UNCHANGED <<grid, cursor>>
      /\ \A p \in Pointers :
           /\ (isDragging /\ mouseDragged(p[1], p[2]))
                => UNCHANGED <<grid, cursor>>
           /\ (~isDragging /\ ~isDrawing
               /\ (touchMoved(<<p>>) \/ mouseDragged(p[1], p[2])))
                => UNCHANGED <<grid, cursor>>
      /\ grid' # grid => (IsTick \/ (IsInjection /\ isDrawing')) ]_vars

(* ------------------------------ C19 ------------------------------------ *)

\* The cells <<col, row>> the injection of the step taken writes.
InjectedCells ==
  LET ws == ImpulseWrites(lastDrawTheta', lastDrawPhi',
                          log'[Len(log')][1] = "point",
                          lastDrawTheta, lastDrawPhi, impulseStrength,
                          heightfieldCols, heightfieldRows)
  IN  {<<ws[n][1], ws[n][2]>> : n \in DOMAIN ws}

\* C19 (frame condition for injection): a point or path injection changes
\* only cells of heightfieldPrevious, those it writes, and the stored
\* last-drawn angle; heightfieldCurrent is cell for cell unchanged by it,
\* and changes only in updateHeightfield.
InjectionWritesOnlyPrevious ==
  [][ /\ IsInjection =>
           /\ heightfieldCurrent' = heightfieldCurrent
           /\ UNCHANGED <<refs, config, canvas, rotationX, rotationY, time,
                          showInstructions>>
           /\ LET changed ==
                     {c \in ColsOf \X RowsOf :
                        heightfieldPrevious'[c[1]][c[2]]
                          # heightfieldPrevious[c[1]][c[2]]}
               IN  changed \subseteq InjectedCells
      /\ heightfieldCurrent' # heightfieldCurrent => IsTick ]_vars

\* Reached: a point injection has just been made after a step, at a cell
\* where the two buffers now differ, with waves in heightfieldCurrent.
InjectionWritesOnlyPreviousWitness ==
  /\ Len(log) >= 3
  /\ log[Len(log)][1] = "point"
  /\ log[Len(log) - 1] = <<"tick">>
  /\ NonZero(heightfieldCurrent)
  /\ LET c == log[Len(log)]
     IN  /\ heightfieldPrevious[c[2]][c[3]] # heightfieldCurrent[c[2]][c[3]]
         /\ heightfieldCurrent[c[2]][c[3]] # Zero

(* ------------------------------ C20 ------------------------------------ *)

\* While the instructions show, the grid is all zero and no gesture is on.
GatedWhileShown ==
  showInstructions =>
    /\ ~NonZero(heightfieldCurrent)
    /\ ~NonZero(heightfieldPrevious)
    /\ ~isDrawing
    /\ ~isDragging

\* C20 (instruction-overlay gate): in every state where showInstructions is
\* true both buffers are all zero and isDrawing and isDragging are false;
\* the press or touch that dismisses the instructions injects nothing and
\* begins no gesture; a frame while they show does not step the simulation;
\* and showInstructions, once false, stays false.
InstructionGate ==
  [][ /\ GatedWhileShown
      /\ GatedWhileShown'
      /\ (showInstructions /\ ~showInstructions') =>
           UNCHANGED <<grid, refs, cursor, mouse, isDrawing, notifications,
                       drawingBegins, log>>
      /\ (showInstructions /\ IsFrame) => (~IsTick /\ UNCHANGED <<grid, refs>>)
      /\ ~showInstructions => ~showInstructions' ]_vars

\* Reached: frames passed while the instructions showed, and the one input
\* callback so far was the press or touch that dismissed them.
InstructionGateWitness ==
  /\ ~showInstructions
  /\ calls = 1
  /\ time >= 32
  /\ Ticks = 0

====
